---- MODULE Spec2Model ----
(***************************************************************************)
(* A model of src/c_stream.rs: the CStream bridge (a context plus four     *)
(* foreign callbacks used as a Read + Seek + Write stream) and the         *)
(* TestCStream reference backend (a Cursor<Vec<u8>> behind the callbacks). *)
(*                                                                         *)
(* Machine integers are modelled at a reduced width of WordBits bits: the  *)
(* code is modelled for a target where isize, usize, i64 and u64 have the  *)
(* same width (a 64-bit target), so one width stands for all four and      *)
(* every `as` cast is a wrap modulo 2^WordBits.  U64_MAX stands for        *)
(* 2^64 - 1 and ISIZE_MAX for isize::MAX.                                  *)
(***************************************************************************)
EXTENDS Integers, Sequences, FiniteSets, TLC

\* ------------------------------------------------------------------ bounds
WordBits == 3
MaxCalls == 3
MaxInitLen == 2
MaxWriteLen == 2

\* ------------------------------------------------------- machine integers
USIZE_MOD == 2 ^ WordBits
U64_MAX == USIZE_MOD - 1
ISIZE_MAX == 2 ^ (WordBits - 1) - 1
ISIZE_MIN == 0 - ISIZE_MAX - 1

IsizeRange == ISIZE_MIN .. ISIZE_MAX
U64Range == 0 .. U64_MAX

\* `x as u64` / `x as usize`: reinterpretation as unsigned.
AsUnsigned(x) == x % USIZE_MOD

\* `x as i64` / `x as isize`: reinterpretation as two's complement.
AsSigned(x) ==
    LET m == x % USIZE_MOD
    IN  IF m > ISIZE_MAX THEN m - USIZE_MOD ELSE m

Min(a, b) == IF a <= b THEN a ELSE b
Max(a, b) == IF a >= b THEN a ELSE b

\* ------------------------------------------------------------- input sets
Bytes == {1, 2}
DestFills == {9}
ForeignText == "synthetic I/O failure"
SeekErrorText == "invalid seek to a negative or overflowing position"

RECURSIVE SeqsUpTo(_, _)
SeqsUpTo(S, n) ==
    IF n = 0 THEN {<<>>}
    ELSE LET shorter == SeqsUpTo(S, n - 1)
         IN  shorter \cup {Append(s, b) : s \in {t \in shorter : Len(t) = n - 1}, b \in S}

Filled(n, b) == [i \in 1 .. n |-> b]

\* The native seek requests (std::io::SeekFrom).
SeekFroms ==
    [tag : {"Start"}, off : U64Range] \cup [tag : {"Current", "End"}, off : IsizeRange]

\* --------------------------------------------------------------- the state
VARIABLES
    bridge,      \* the CStream: which callbacks, how held, alive, what context
    heap,        \* the TestCStream state at the address of the original context
    backend,     \* the TestCStream value moved out by from_c_stream
    callerHolds, \* the caller holds the original context from extract_context
    freed,       \* times the TestCStream state was destroyed (its buffer freed)
    lastError,   \* the crate's last-error slot (Error::set_last)
    errno,       \* the platform's errno, read by last_os_error
    calls,       \* callback invocations so far
    limit,       \* callback invocations the client makes at most
    req,         \* the operation that produced this state, with its inputs
    cb,          \* what the callback did in that operation
    ret,         \* what the operation returned
    dest,        \* the caller's destination buffer after a read
    initial,     \* the bytes given to from_bytes
    acc,         \* concatenation of the chunks of the sequential reads
    seqMode,     \* "reading" | "done" | "off": the read-until-0 loop
    crashed      \* the process was aborted

vars == <<bridge, heap, backend, callerHolds, freed, lastError, errno, calls, limit,
          req, cb, ret, dest, initial, acc, seqMode, crashed>>

NoReq == [op |-> "", tag |-> "", off |-> 0, n |-> 0, buf |-> <<>>]
NoCb == [invoked |-> FALSE, returned |-> FALSE, r |-> 0, recorded |-> "", ctx |-> ""]
Unit == [kind |-> "Unit", val |-> 0, errkind |-> "", detail |-> "", obj |-> ""]
Aborted == [Unit EXCEPT !.kind = "Abort"]
NoBackend == [some |-> FALSE, data |-> <<>>, pos |-> 0]

Ok(v) == [Unit EXCEPT !.kind = "Ok", !.val = v]


\* An InvalidInput error built locally by the bridge.
InvalidInput(text) ==
    [Unit EXCEPT !.kind = "Err", !.errkind = "InvalidInput", !.detail = text]

\* The description std::io::Error::last_os_error() carries for an errno.
OsErrorDesc(e) ==
    IF e = 0 THEN "Success (os error 0)" ELSE "Input/output error (os error 5)"

\* Error::set_last(Error::Io(text)): the slot now holds the text.
set_last(slot, text) == text

\* ------------------------------------------- the reference backend callbacks
\* A callback's outcome: its signed result, the context and destination it
\* leaves, the text it recorded with set_last ("" for none), whether it
\* aborted the process instead of returning, the errno it leaves.
Outcome(r, ctx, data, recorded) ==
    [r |-> r, ctx |-> ctx, data |-> data, recorded |-> recorded, aborted |-> FALSE,
     e |-> errno]

TestCStream_new(data) == [data |-> data, pos |-> 0]

\* reader with the cursor left where it was.
reader_NoAdvance(ctx, data, len) ==
    LET k == AsUnsigned(len)
        start == Min(ctx.pos, Len(ctx.data))
        n == Min(k, Len(ctx.data) - start)
    IN  Outcome(AsSigned(n), ctx,
                SubSeq(ctx.data, start + 1, start + n) \o SubSeq(data, n + 1, Len(data)),
                "")

\* reader clearing the part of the destination it does not fill.
reader_ZeroTail(ctx, data, len) ==
    LET k == AsUnsigned(len)
        start == Min(ctx.pos, Len(ctx.data))
        n == Min(k, Len(ctx.data) - start)
    IN  Outcome(AsSigned(n),
                [ctx EXCEPT !.pos = ctx.pos + n],
                SubSeq(ctx.data, start + 1, start + n) \o Filled(Len(data) - n, 0),
                "")

\* TestCStream::reader: Cursor::read copies from min(pos, len) and advances
\* the cursor by the count copied; it cannot fail on a Vec.
reader(ctx, data, len) ==
    LET k == AsUnsigned(len)
        start == Min(ctx.pos, Len(ctx.data))
        n == Min(k, Len(ctx.data) - start)
    IN  Outcome(AsSigned(n),
                [ctx EXCEPT !.pos = ctx.pos + n],
                SubSeq(ctx.data, start + 1, start + n) \o SubSeq(data, n + 1, Len(data)),
                "")

\* u64::checked_add_signed as Cursor::seek uses it: -1 stands for None.
checked_add_signed(base, offset) ==
    LET t == base + offset
    IN  IF t < 0 \/ t > U64_MAX THEN -1 ELSE t

\* seeker taking End offsets from the cursor instead of the length.
seeker_EndFromCursor(ctx, offset, mode) ==
    IF mode = "Start"
    THEN LET p == AsUnsigned(offset)
         IN  Outcome(AsSigned(p), [ctx EXCEPT !.pos = p], <<>>, "")
    ELSE LET t == checked_add_signed(ctx.pos, AsSigned(offset))
         IN  IF t < 0
             THEN Outcome(-1, ctx, <<>>, SeekErrorText)
             ELSE Outcome(AsSigned(t), [ctx EXCEPT !.pos = t], <<>>, "")

\* TestCStream::seeker.
seeker(ctx, offset, mode) ==
    IF mode = "Start"
    THEN LET p == AsUnsigned(offset)
         IN  Outcome(AsSigned(p), [ctx EXCEPT !.pos = p], <<>>, "")
    ELSE LET base == IF mode = "Current" THEN ctx.pos ELSE Len(ctx.data)
             t == checked_add_signed(base, AsSigned(offset))
         IN  IF t < 0
             THEN Outcome(-1, ctx, <<>>, SeekErrorText)
             ELSE Outcome(AsSigned(t), [ctx EXCEPT !.pos = t], <<>>, "")

\* TestCStream::flusher.
flusher(ctx) == Outcome(0, ctx, <<>>, "")

\* writer dropping what followed the written bytes.
writer_Truncate(ctx, data, len) ==
    LET n == AsUnsigned(len)
        L == Len(ctx.data)
        p == ctx.pos
    IN  IF p + n > ISIZE_MAX
        THEN [Outcome(0, ctx, <<>>, "") EXCEPT !.aborted = TRUE]
        ELSE LET padded == IF p > L THEN ctx.data \o Filled(p - L, 0) ELSE ctx.data
             IN  Outcome(AsSigned(n),
                         [data |-> SubSeq(padded, 1, p) \o SubSeq(data, 1, n), pos |-> p + n],
                         <<>>, "")

\* TestCStream::writer: Cursor<Vec<u8>>::write pads the Vec with zeros up to
\* the cursor, overwrites or appends, and advances the cursor.  A Vec cannot
\* hold more than isize::MAX bytes: growing past that panics ("capacity
\* overflow") inside the extern "C" callback, which aborts the process.
writer(ctx, data, len) ==
    LET n == AsUnsigned(len)
        L == Len(ctx.data)
        p == ctx.pos
    IN  IF p + n > ISIZE_MAX
        THEN [Outcome(0, ctx, <<>>, "") EXCEPT !.aborted = TRUE]
        ELSE LET padded == IF p > L THEN ctx.data \o Filled(p - L, 0) ELSE ctx.data
                 grown == SubSeq(padded, 1, p) \o SubSeq(data, 1, n)
                              \o SubSeq(padded, p + n + 1, Len(padded))
             IN  Outcome(AsSigned(n), [data |-> grown, pos |-> p + n], <<>>, "")

\* ------------------------------------------------------------- the bridge
CStream_new(kind, boxed) ==
    [kind |-> kind, boxed |-> boxed, alive |-> TRUE, context |-> "orig"]

\* The guard off by one.
BufferTooLarge_OffByOne(n) == n >= ISIZE_MAX

\* The guard of CStream::read and CStream::write.
BufferTooLarge(n) == n > ISIZE_MAX

\* The translation of a read / write / flush callback result.
IoResult(r, e) ==
    IF r < 0
    THEN [Unit EXCEPT !.kind = "Err", !.errkind = "Os", !.detail = OsErrorDesc(e)]
    ELSE Ok(AsUnsigned(r))

\* The seek result translated as read and write results are.
SeekResult_Checked(r) ==
    IF r < 0
    THEN [Unit EXCEPT !.kind = "Err", !.errkind = "Os", !.detail = OsErrorDesc(errno)]
    ELSE Ok(AsUnsigned(r))

\* The translation of a seek callback result.
SeekResult(r) == Ok(AsUnsigned(r))

\* The (offset, mode) a native seek request is mapped to.
SeekRequest(from) ==
    IF from.tag = "Start"
    THEN [pos |-> AsSigned(from.off), mode |-> "Start"]
    ELSE [pos |-> from.off, mode |-> from.tag]

\* What a foreign callback can do: return a count or position, or return a
\* negative value after recording a text with set_last and / or setting errno.
ForeignOutcomes(ctx, data) ==
    {Outcome(r, ctx, data, "") : r \in {0, 1, ISIZE_MAX}}
    \cup {Outcome(-1, ctx, data, ForeignText),
          [Outcome(-1, ctx, data, "") EXCEPT !.e = 5],
          [Outcome(ISIZE_MIN, ctx, data, ForeignText) EXCEPT !.e = 5]}

\* What invoking a callback of this bridge can do.  The reference backend's
\* callbacks act on the context they are handed; handed the placeholder that
\* extract_context leaves (a dangling pointer to a zero-sized value) they
\* dereference it as a TestCStream, which is undefined: the process aborts or
\* the callback returns some value read from elsewhere.
CallbackOutcomes(test) ==
    IF bridge.kind = "test"
    THEN IF bridge.context = "orig"
         THEN {test}
         ELSE {[Outcome(0, heap, test.data, "") EXCEPT !.aborted = TRUE]}
                  \cup {Outcome(r, heap, test.data, "") : r \in {-1, 0}}
    ELSE ForeignOutcomes(heap, test.data)

\* The client is between operations: the last result has been consumed.
Idle == req = NoReq /\ ~crashed

Usable == bridge.alive /\ Idle

\* The client has invocations left.
CanCall == calls < limit

\* The effect of one callback invocation with outcome o.
Invoke(o) ==
    /\ calls' = calls + 1
    /\ heap' = o.ctx
    /\ lastError' = IF o.recorded # "" THEN set_last(lastError, o.recorded) ELSE lastError
    /\ errno' = o.e
    /\ cb' = [invoked |-> TRUE, returned |-> ~o.aborted, r |-> o.r, recorded |-> o.recorded,
              ctx |-> bridge.context]
    /\ crashed' = o.aborted

NotInvoked ==
    /\ cb' = NoCb
    /\ UNCHANGED <<heap, lastError, errno, calls, crashed>>

EndSequentialRead == seqMode' = "off" /\ acc' = <<>>

\* impl Read for CStream.
read ==
    /\ Usable /\ CanCall
    /\ \E k \in U64Range, fill \in DestFills :
        LET buf == Filled(k, fill)
        IN  /\ req' = [NoReq EXCEPT !.op = "read", !.n = k, !.buf = buf]
            /\ IF BufferTooLarge(k)
               THEN /\ ret' = InvalidInput("Read buffer is too large")
                    /\ dest' = buf
                    /\ NotInvoked
               ELSE \E o \in CallbackOutcomes(reader(heap, buf, AsSigned(k))) :
                        /\ Invoke(o)
                        /\ dest' = o.data
                        /\ ret' = IF o.aborted THEN Aborted ELSE IoResult(o.r, o.e)
            /\ IF seqMode = "reading" /\ k >= 1 /\ ret'.kind = "Ok"
               THEN IF ret'.val = 0
                    THEN seqMode' = "done" /\ acc' = acc
                    ELSE seqMode' = "reading"
                         /\ acc' = acc \o SubSeq(dest', 1, Min(ret'.val, Len(dest')))
               ELSE EndSequentialRead
    /\ UNCHANGED <<bridge, backend, callerHolds, freed, initial, limit>>

\* impl Seek for CStream.
seek ==
    /\ Usable /\ CanCall
    /\ \E from \in SeekFroms :
        LET rq == SeekRequest(from)
        IN  /\ req' = [NoReq EXCEPT !.op = "seek", !.tag = from.tag, !.off = from.off]
            /\ \E o \in CallbackOutcomes(seeker(heap, AsSigned(rq.pos), rq.mode)) :
                   /\ Invoke(o)
                   /\ ret' = IF o.aborted THEN Aborted ELSE SeekResult(o.r)
    /\ dest' = <<>>
    /\ EndSequentialRead
    /\ UNCHANGED <<bridge, backend, callerHolds, freed, initial, limit>>

WriteBufs ==
    SeqsUpTo(Bytes, MaxWriteLen) \cup {Filled(n, 1) : n \in (ISIZE_MAX + 1) .. U64_MAX}

\* impl Write for CStream: write.
write ==
    /\ Usable /\ CanCall
    /\ \E buf \in WriteBufs :
        /\ req' = [NoReq EXCEPT !.op = "write", !.n = Len(buf), !.buf = buf]
        /\ IF BufferTooLarge(Len(buf))
           THEN /\ ret' = InvalidInput("Write buffer is too large")
                /\ NotInvoked
           ELSE \E o \in CallbackOutcomes(writer(heap, buf, AsSigned(Len(buf)))) :
                    /\ Invoke(o)
                    /\ ret' = IF o.aborted THEN Aborted ELSE IoResult(o.r, o.e)
    /\ dest' = <<>>
    /\ EndSequentialRead
    /\ UNCHANGED <<bridge, backend, callerHolds, freed, initial, limit>>

\* impl Write for CStream: flush.
flush ==
    /\ Usable /\ CanCall
    /\ req' = [NoReq EXCEPT !.op = "flush"]
    /\ \E o \in CallbackOutcomes(flusher(heap)) :
           /\ Invoke(o)
           /\ ret' = IF o.aborted THEN Aborted ELSE IoResult(o.r, o.e)
    /\ dest' = <<>>
    /\ EndSequentialRead
    /\ UNCHANGED <<bridge, backend, callerHolds, freed, initial, limit>>

\* --------------------------------------------------- ownership and teardown
\* Dropping a CStream drops its `context: Box<StreamContext>`.  StreamContext
\* is a zero-sized type, so that Box's destructor runs no destructor of the
\* backend state and deallocates nothing: the number of times the drop
\* destroys the state the context points to.
DropContextBox(b) == 0

\* The drop glue of CStream.
DropCStream(b) == [b EXCEPT !.alive = FALSE]

\* extract_context handing out the context without replacing it.
extract_context_Copy(b) == [bridge |-> b, out |-> b.context]

\* CStream::extract_context: mem::replace of the context by a placeholder.
extract_context(b) ==
    [bridge |-> [b EXCEPT !.context = "placeholder"], out |-> b.context]

\* from_c_stream unboxing the placeholder left in the bridge.
from_c_stream_Fresh(b, h) ==
    [bridge |-> [b EXCEPT !.alive = FALSE, !.context = "placeholder"],
     backend |-> [some |-> TRUE, data |-> <<>>, pos |-> 0],
     aborted |-> b.context # "orig"]

\* TestCStream::from_c_stream: the extracted context, unboxed as the backend;
\* the bridge, taken by value, is dropped on return.  An extracted placeholder
\* is a dangling pointer: unboxing it aborts.
from_c_stream(b, h) ==
    LET e == extract_context(b)
    IN  [bridge |-> DropCStream(e.bridge),
         backend |-> IF e.out = "orig"
                     THEN [some |-> TRUE, data |-> h.data, pos |-> h.pos]
                     ELSE NoBackend,
         aborted |-> e.out # "orig"]

\* Who owns the state the bridge was built from.
Owners ==
    {o \in {"bridge", "backend", "caller"} :
        \/ o = "bridge" /\ bridge.alive /\ bridge.context = "orig"
        \/ o = "backend" /\ backend.some
        \/ o = "caller" /\ callerHolds}

Teardown(op) ==
    /\ req' = [NoReq EXCEPT !.op = op]
    /\ cb' = NoCb
    /\ dest' = <<>>
    /\ EndSequentialRead
    /\ UNCHANGED <<heap, lastError, errno, calls, initial, limit>>

\* CStream::extract_context called on a live bridge by its owner.
ExtractContext ==
    /\ Usable
    /\ LET e == extract_context(bridge)
       IN  /\ bridge' = e.bridge
           /\ callerHolds' = (callerHolds \/ e.out = "orig")
           /\ ret' = [Unit EXCEPT !.kind = "Ok", !.obj = e.out]
    /\ Teardown("extract_context")
    /\ UNCHANGED <<backend, freed, crashed>>

\* TestCStream::from_c_stream on a bridge made by from_bytes.
FromCStream ==
    /\ Usable /\ bridge.kind = "test" /\ ~bridge.boxed
    /\ LET f == from_c_stream(bridge, heap)
       IN  /\ bridge' = f.bridge
           /\ backend' = f.backend
           /\ crashed' = f.aborted
           /\ freed' = freed + DropContextBox(f.bridge)
           /\ ret' = IF f.aborted THEN Aborted ELSE [Unit EXCEPT !.kind = "Ok", !.obj = "backend"]
    /\ Teardown("from_c_stream")
    /\ UNCHANGED callerHolds

\* TestCStream::drop_c_stream: from_c_stream, then the backend is dropped.
drop_c_stream ==
    /\ Usable /\ bridge.kind = "test" /\ ~bridge.boxed
    /\ LET f == from_c_stream(bridge, heap)
       IN  /\ bridge' = f.bridge
           /\ backend' = NoBackend
           /\ crashed' = f.aborted
           /\ freed' = freed + DropContextBox(f.bridge) + (IF f.backend.some THEN 1 ELSE 0)
           /\ ret' = IF f.aborted THEN Aborted ELSE Unit
    /\ Teardown("drop_c_stream")
    /\ UNCHANGED callerHolds

\* The backend returned by from_c_stream goes out of scope.
DropBackend ==
    /\ Idle /\ backend.some
    /\ backend' = NoBackend
    /\ freed' = freed + 1
    /\ ret' = Unit
    /\ Teardown("drop_backend")
    /\ UNCHANGED <<bridge, callerHolds, crashed>>

\* c2pa_release_stream: a null handle is left alone, any other is dropped.
c2pa_release_stream ==
    /\ Idle /\ bridge.boxed
    /\ \E isNull \in BOOLEAN :
        IF isNull
        THEN /\ req' = [NoReq EXCEPT !.op = "c2pa_release_stream", !.tag = "null"]
             /\ UNCHANGED <<bridge, freed>>
        ELSE /\ bridge.alive
             /\ req' = [NoReq EXCEPT !.op = "c2pa_release_stream", !.tag = "handle"]
             /\ bridge' = DropCStream(bridge)
             /\ freed' = freed + DropContextBox(bridge)
    /\ ret' = Unit
    /\ cb' = NoCb
    /\ dest' = <<>>
    /\ EndSequentialRead
    /\ UNCHANGED <<heap, backend, callerHolds, lastError, errno, calls, initial, limit, crashed>>

\* A CStream held by value goes out of scope.
DropBridge ==
    /\ Usable /\ ~bridge.boxed
    /\ bridge' = DropCStream(bridge)
    /\ freed' = freed + DropContextBox(bridge)
    /\ ret' = Unit
    /\ Teardown("drop")
    /\ UNCHANGED <<backend, callerHolds, crashed>>

\* The client consumes the result of the last operation (the binding of the
\* result, and of the destination buffer, goes out of scope).
Return ==
    /\ req # NoReq /\ ~crashed
    /\ req' = NoReq
    /\ ret' = Unit
    /\ cb' = NoCb
    /\ dest' = <<>>
    /\ UNCHANGED <<bridge, heap, backend, callerHolds, freed, lastError, errno, calls,
                   limit, initial, acc, seqMode, crashed>>

\* ------------------------------------------------------------ construction
\* TestCStream::into_c_stream: the backend, boxed, becomes the context.
into_c_stream(t) == [bridge |-> CStream_new("test", FALSE), heap |-> t]

\* TestCStream::from_bytes.
from_bytes(data) == into_c_stream(TestCStream_new(data))

\* c2pa_create_stream with a foreign context and foreign callbacks.
c2pa_create_stream == [bridge |-> CStream_new("ext", TRUE), heap |-> TestCStream_new(<<>>)]

Constructed(c, op, data, mode, n) ==
    /\ bridge = c.bridge
    /\ heap = c.heap
    /\ initial = data
    /\ seqMode = mode
    /\ limit = n
    /\ req = [NoReq EXCEPT !.op = op, !.buf = data]
    /\ backend = NoBackend
    /\ callerHolds = FALSE
    /\ freed = 0
    /\ lastError = ""
    /\ errno = 0
    /\ calls = 0
    /\ cb = NoCb
    /\ ret = Unit
    /\ dest = <<>>
    /\ acc = <<>>
    /\ crashed = FALSE

\* The buffers the bridges start from: byte i holds the value i.
InitBytes == {[i \in 1 .. n |-> i] : n \in 0 .. MaxInitLen}

Init ==
    \/ \E data \in InitBytes : Constructed(from_bytes(data), "from_bytes", data, "off", MaxCalls)
    \/ Constructed(c2pa_create_stream, "c2pa_create_stream", <<>>, "off", MaxCalls)

Next ==
    \/ read
    \/ seek
    \/ write
    \/ flush
    \/ ExtractContext
    \/ FromCStream
    \/ drop_c_stream
    \/ DropBackend
    \/ c2pa_release_stream
    \/ DropBridge
    \/ Return

Spec == Init /\ [][Next]_vars

\* The read-until-0 loop of a client over any initial bytes.
InitReadAll ==
    \E data \in SeqsUpTo(Bytes, MaxInitLen) :
        Constructed(from_bytes(data), "from_bytes", data, "reading", MaxInitLen + 1)

NextReadAll == read \/ Return

SpecReadAll == InitReadAll /\ [][NextReadAll]_vars

\* ============================================================= properties
\* A step that performs operation op (every operation starts from Idle).
Does(op) == Idle /\ req'.op = op

\* The bridge hands the reference backend's callbacks their own state.
OnBackend == bridge.kind = "test" /\ bridge.context = "orig"

Live == bridge.alive /\ bridge.context = "orig"

\* Every owner of the backend state is gone and the process did not abort.
TornDown == ~bridge.alive /\ ~backend.some /\ ~callerHolds /\ ~crashed

IsPrefix(s, t) == Len(s) <= Len(t) /\ s = SubSeq(t, 1, Len(s))

\* C1: on every teardown path the context the bridge took ownership of is
\* freed exactly once: never more than once, and once every owner is gone it
\* has been freed.
C1_ExactlyOnceRelease == freed <= 1 /\ (TornDown => freed = 1)

\* C2: when a read, write or flush callback records a text with set_last and
\* returns a negative value, the bridge operation returns an error whose
\* detail is the recorded text.
C2_ErrorDetailPropagation ==
    (req.op \in {"read", "write", "flush"} /\ cb.returned /\ cb.r < 0 /\ cb.recorded # "")
        => (ret.kind = "Err" /\ ret.detail = cb.recorded)

\* C3: a read or write whose buffer length exceeds isize::MAX returns
\* InvalidInput without invoking the callback (invocation count, backend
\* buffer and cursor unchanged); for every length up to isize::MAX the
\* callback is invoked exactly once.
C3_OversizedRejected ==
    [][(Does("read") \/ Does("write")) =>
          IF req'.n > ISIZE_MAX
          THEN /\ ret'.kind = "Err" /\ ret'.errkind = "InvalidInput"
               /\ ~cb'.invoked
               /\ calls' = calls
               /\ heap' = heap
          ELSE cb'.invoked /\ calls' = calls + 1]_vars

C3_Witness ==
    /\ req.op = "read" /\ req.n > ISIZE_MAX
    /\ ret.errkind = "InvalidInput"
    /\ calls = 1 /\ heap.pos = 1

\* C4: reading a from_bytes(B) bridge from position 0 with destinations of
\* size at least 1 yields chunks that concatenate to a prefix of B, and once
\* a read has returned 0 the concatenation is B.
C4_RoundTrip ==
    /\ seqMode = "reading" => IsPrefix(acc, initial)
    /\ seqMode = "done" => acc = initial

C4_Witness == seqMode = "done" /\ Len(initial) >= 2 /\ calls >= 3 /\ acc = initial

\* C5: a read of the reference backend with buffer length L and cursor p into
\* a destination of length k (one the bridge passes on, k <= isize::MAX)
\* returns n = min(k, max(0, L - p)), copies buffer[p..p+n) to the front of
\* the destination, leaves the rest of the destination untouched, moves the
\* cursor to p + n and leaves the buffer as it was.
C5_PartialRead ==
    [][(Does("read") /\ OnBackend /\ req'.n <= ISIZE_MAX) =>
          LET L == Len(heap.data)
              p == heap.pos
              k == req'.n
              n == Min(k, Max(0, L - p))
          IN  /\ ret' = Ok(n)
              /\ Len(dest') = k
              /\ \A i \in 1 .. n : dest'[i] = heap.data[p + i]
              /\ \A i \in (n + 1) .. k : dest'[i] = req'.buf[i]
              /\ heap'.pos = p + n
              /\ heap'.data = heap.data]_vars

C5_Witness ==
    /\ req.op = "read" /\ req.n = 3
    /\ ret = Ok(1)
    /\ dest = <<2, 9, 9>>
    /\ heap = [data |-> <<1, 2>>, pos |-> 2]

\* The position a seek request aims at, from cursor p and length L.
SeekTarget(p, L, tag, off) ==
    IF tag = "Start" THEN off ELSE IF tag = "Current" THEN p + off ELSE L + off

\* C6 as claimed: every seek whose target is non-negative sets the cursor to
\* the target and returns it.
C6_SeekArithmetic ==
    [][(Does("seek") /\ OnBackend) =>
          LET t == SeekTarget(heap.pos, Len(heap.data), req'.tag, req'.off)
          IN  t >= 0 => (heap'.pos = t /\ heap'.data = heap.data /\ ret' = Ok(t))]_vars

\* C6 as amended: every seek whose target is non-negative and at most
\* u64::MAX sets the cursor to the target (past the end included) and
\* returns it, leaving the buffer alone; a read that returns bytes starts at
\* the cursor.
C6_SeekArithmeticInRange ==
    /\ [][(Does("seek") /\ OnBackend) =>
          LET t == SeekTarget(heap.pos, Len(heap.data), req'.tag, req'.off)
          IN  (t >= 0 /\ t <= U64_MAX)
                  => (heap'.pos = t /\ heap'.data = heap.data /\ ret' = Ok(t))]_vars
    /\ [][(Does("read") /\ OnBackend /\ ret'.kind = "Ok" /\ ret'.val > 0)
              => dest'[1] = heap.data[heap.pos + 1]]_vars

C6_Witness ==
    /\ req.op = "seek" /\ req.tag = "End" /\ req.off = 2
    /\ bridge.kind = "test" /\ cb.ctx = "orig"
    /\ Len(heap.data) = 2 /\ heap.pos = 4
    /\ ret = Ok(4)

\* What C7 says of a write of buf at cursor p into a buffer of length L.
WriteEffect ==
    LET L == Len(heap.data)
        p == heap.pos
        n == req'.n
    IN  /\ ret' = Ok(n)
        /\ heap'.pos = p + n
        /\ Len(heap'.data) = Max(L, p + n)
        /\ \A i \in 1 .. n : heap'.data[p + i] = req'.buf[i]
        /\ \A i \in 1 .. L : (i <= p \/ i > p + n) => heap'.data[i] = heap.data[i]

\* A following Seek(End, 0) returns the buffer length.
SeekEndReturnsLength ==
    (Does("seek") /\ OnBackend /\ req'.tag = "End" /\ req'.off = 0)
        => ret' = Ok(Len(heap.data))

C8_ConversionRoundTrip ==
    [][(Does("from_c_stream") /\ OnBackend /\ ~callerHolds) =>
          /\ ret'.kind = "Ok"
          /\ backend' = [some |-> TRUE, data |-> heap.data, pos |-> heap.pos]
          /\ Owners' = {"backend"}]_vars

C8_Witness ==
    /\ req.op = "from_c_stream" /\ backend.some
    /\ backend.data # initial /\ backend.pos > 0
    /\ Owners = {"backend"}

\* C9: a bridge leaves Live only through extract_context (alone or inside
\* from_c_stream / drop_c_stream) or through its release or drop, and never
\* returns to Live: after extract_context the bridge does not hold the
\* original context, no callback is handed it and no extract_context
\* returns it.
C9_Lifecycle ==
    /\ [](req.op = "extract_context" => ~Live)
    /\ [][/\ ~Live => /\ ~Live'
                      /\ cb'.invoked => cb'.ctx # "orig"
                      /\ req'.op = "extract_context" => ret'.obj # "orig"
          /\ (Live /\ ~Live') =>
                 req'.op \in {"extract_context", "from_c_stream", "drop_c_stream",
                              "c2pa_release_stream", "drop"}]_vars

C9_Witness ==
    /\ req.op = "read" /\ cb.invoked /\ cb.ctx = "placeholder"
    /\ callerHolds /\ bridge.alive

====
